---- MODULE Spec2Model ----
(***************************************************************************)
(* A model of the rlox scanner (src/src/lexer/scanner.rs): a pull-based    *)
(* iterator that turns a source string into tokens.  A source string is a  *)
(* sequence of one-character strings; the character stream                 *)
(* (Peekable<Chars>) is the source together with the number of characters  *)
(* already consumed.  One call of Scanner::next is one step.               *)
(***************************************************************************)
EXTENDS Integers, Sequences, FiniteSets, TLC

VARIABLES
    source,    \* the borrowed source text, fixed at construction
    pos,       \* stream: number of characters consumed so far
    line,      \* Scanner.line
    returned,  \* outcome of the latest call of next: none yet, Some(token), None, or a panic
    calls,     \* number of calls of next made so far
    tokens,    \* history: the tokens yielded so far, in order
    spans,     \* history: for each yielded token, the source positions it was scanned from
    trace      \* history: what the latest call did on its way (see ScanFrom)

vars == <<source, pos, line, returned, calls, tokens, spans, trace>>

----------------------------------------------------------------------------
(* Bounds of the model *)

\* longest source string considered
MaxLen == 4

\* calls of next made after the stream has signalled exhaustion
ExtraCalls == 1

----------------------------------------------------------------------------
(* Characters *)

NL == "\n"
QUOTE == "\""
TAB == "\t"
CR == "\r"
\* what peek() / next() give at the end of the stream (Option::None)
NoChar == "<none>"

Lower == {"a", "b", "c", "d", "e", "f", "g", "h", "i", "j", "k", "l", "m",
          "n", "o", "p", "q", "r", "s", "t", "u", "v", "w", "x", "y", "z"}
Upper == {"A", "B", "C", "D", "E", "F", "G", "H", "I", "J", "K", "L", "M",
          "N", "O", "P", "Q", "R", "S", "T", "U", "V", "W", "X", "Y", "Z"}
Digits == {"0", "1", "2", "3", "4", "5", "6", "7", "8", "9"}

\* 'a'..='z' | 'A'..='Z' : the characters that start the identifier arm
IdentStart == Lower \cup Upper
\* 'a'..='z' | 'A'..='Z' | '0'..='9' | '_' | '-' : the characters the identifier loop absorbs
IdentContinue == Lower \cup Upper \cup Digits \cup {"_", "-"}
\* '0'..='9' | '.' : the characters the number loop absorbs
NumberContinue == Digits \cup {"."}

DigitValue(c) ==
    CASE c = "0" -> 0 [] c = "1" -> 1 [] c = "2" -> 2 [] c = "3" -> 3 [] c = "4" -> 4
      [] c = "5" -> 5 [] c = "6" -> 6 [] c = "7" -> 7 [] c = "8" -> 8 [] c = "9" -> 9

----------------------------------------------------------------------------
(* Tokens and literals *)

NoLiteral == [tag |-> "none"]
LoxNumber(v) == [tag |-> "LoxNumber", value |-> v]
LoxIdentifier(s) == [tag |-> "LoxIdentifier", text |-> s]

\* Token::new(token_type, lexeme, line); the payload of the token type is kept beside it
Token(type, literal, lexeme, ln) ==
    [type |-> type, literal |-> literal, lexeme |-> lexeme, line |-> ln]

\* the fixed single-character arms of next
SingleType(ch) ==
    CASE ch = "(" -> "LeftParen" [] ch = ")" -> "RightParen"
      [] ch = "{" -> "LeftBrace" [] ch = "}" -> "RightBrace"
      [] ch = "," -> "Comma" [] ch = "." -> "Dot" [] ch = "-" -> "Minus"
      [] ch = "+" -> "Plus" [] ch = ";" -> "Semicolon" [] ch = "*" -> "Star"
SingleChars == {"(", ")", "{", "}", ",", ".", "-", "+", ";", "*"}

\* the keyword table of the language: each reserved word with its token type
KeywordTable ==
    { <<<<"a", "n", "d">>, "And">>, <<<<"c", "l", "a", "s", "s">>, "Class">>,
      <<<<"e", "l", "s", "e">>, "Else">>, <<<<"f", "a", "l", "s", "e">>, "False">>,
      <<<<"f", "o", "r">>, "For">>, <<<<"f", "u", "n">>, "Fun">>,
      <<<<"i", "f">>, "If">>, <<<<"n", "i", "l">>, "Nil">>, <<<<"o", "r">>, "Or">>,
      <<<<"p", "r", "i", "n", "t">>, "Print">>,
      <<<<"r", "e", "t", "u", "r", "n">>, "Return">>,
      <<<<"s", "u", "p", "e", "r">>, "Super">>, <<<<"t", "h", "i", "s">>, "This">>,
      <<<<"t", "r", "u", "e">>, "True">>, <<<<"v", "a", "r">>, "Var">>,
      <<<<"w", "h", "i", "l", "e">>, "While">> }
KeywordTexts == {k[1] : k \in KeywordTable}

\* the letters the reserved words begin with, in both cases
CasePairs ==
    { <<"a", "A">>, <<"c", "C">>, <<"e", "E">>, <<"f", "F">>, <<"i", "I">>,
      <<"n", "N">>, <<"o", "O">>, <<"p", "P">>, <<"r", "R">>, <<"s", "S">>,
      <<"t", "T">>, <<"v", "V">>, <<"w", "W">> }
UpperOf(c) == IF \E p \in CasePairs : p[1] = c
              THEN (CHOOSE p \in CasePairs : p[1] = c)[2] ELSE c
LowerOf(c) == IF \E p \in CasePairs : p[2] = c
              THEN (CHOOSE p \in CasePairs : p[2] = c)[1] ELSE c

\* the keyword match made on the case-folded text: `Print` is taken for `print`
KeywordTypeFoldsCase(ident) ==
    LET folded == [k \in 1..Len(ident) |-> LowerOf(ident[k])]
    IN  IF folded \in KeywordTexts
        THEN (CHOOSE k \in KeywordTable : k[1] = folded)[2]
        ELSE "Identifier"

\* the keyword match of the identifier arm
KeywordType(ident) ==
    CASE ident = <<"a", "n", "d">> -> "And"
      [] ident = <<"c", "l", "a", "s", "s">> -> "Class"
      [] ident = <<"e", "l", "s", "e">> -> "Else"
      [] ident = <<"f", "a", "l", "s", "e">> -> "False"
      [] ident = <<"f", "o", "r">> -> "For"
      [] ident = <<"f", "u", "n">> -> "Fun"
      [] ident = <<"i", "f">> -> "If"
      [] ident = <<"n", "i", "l">> -> "Nil"
      [] ident = <<"o", "r">> -> "Or"
      [] ident = <<"p", "r", "i", "n", "t">> -> "Print"
      [] ident = <<"r", "e", "t", "u", "r", "n">> -> "Return"
      [] ident = <<"s", "u", "p", "e", "r">> -> "Super"
      [] ident = <<"t", "h", "i", "s">> -> "This"
      [] ident = <<"t", "r", "u", "e">> -> "True"
      [] ident = <<"v", "a", "r">> -> "Var"
      [] ident = <<"w", "h", "i", "l", "e">> -> "While"
      [] OTHER -> "Identifier"

----------------------------------------------------------------------------
(* The character stream *)

\* self.stream.peek(): the next character, not consumed
Peek(src, p) == IF p < Len(src) THEN src[p + 1] ELSE NoChar

\* position after one self.stream.next(): at the end of the stream nothing is consumed
Advance(src, p) == IF p < Len(src) THEN p + 1 ELSE p

----------------------------------------------------------------------------
(* ident.parse::<f64>() on a lexeme of the number loop: digits and dots,    *)
(* starting with a digit.  It succeeds exactly when there is at most one    *)
(* dot; the value is the decimal fraction num/den in lowest decimal form,   *)
(* so that "1", "1." and "1.0" parse to the same value.                     *)

RECURSIVE CountDots(_)
CountDots(s) ==
    IF s = <<>> THEN 0
    ELSE (IF Head(s) = "." THEN 1 ELSE 0) + CountDots(Tail(s))

\* the decimal digits of s read as an integer, dots skipped
RECURSIVE DigitsValue(_, _)
DigitsValue(s, acc) ==
    IF s = <<>> THEN acc
    ELSE IF Head(s) = "." THEN DigitsValue(Tail(s), acc)
    ELSE DigitsValue(Tail(s), 10 * acc + DigitValue(Head(s)))

\* number of digits after the dot of s (0 when s has no dot)
RECURSIVE FractionDigits(_)
FractionDigits(s) ==
    IF s = <<>> THEN 0
    ELSE IF Head(s) = "." THEN Len(s) - 1
    ELSE FractionDigits(Tail(s))

RECURSIVE Pow10(_)
Pow10(n) == IF n = 0 THEN 1 ELSE 10 * Pow10(n - 1)

RECURSIVE Reduce(_, _)
Reduce(num, den) ==
    IF den > 1 /\ num % 10 = 0 THEN Reduce(num \div 10, den \div 10)
    ELSE [num |-> num, den |-> den]

ParseError == [num |-> -1, den |-> 0]

ParseF64(ident) ==
    IF CountDots(ident) > 1 THEN ParseError
    ELSE Reduce(DigitsValue(ident, 0), Pow10(FractionDigits(ident)))

----------------------------------------------------------------------------
(* The arms of Scanner::next.  Each gives the outcome of the call:          *)
(*   kind   "some" (Some(token)), "none" (None) or "panic" (the call        *)
(*          unwinds out of an expect)                                       *)
(*   pos, line   the stream position and self.line the call leaves behind   *)
(*   trace  what the call did on its way:                                   *)
(*            start     index in the source of the character whose arm      *)
(*                      ended the call (0 when the stream ran out instead)  *)
(*            fell      the characters dropped by the `_ => {}` arm         *)
(*            unclosed  for each block comment whose loop ended at the end  *)
(*                      of the stream instead of at a closer, the line of   *)
(*                      its opener                                          *)

NoToken == [type |-> "none"]
NoTrace == [start |-> 0, fell |-> <<>>, unclosed |-> <<>>]

Some(tok, p, ln, tr, start) ==
    [kind |-> "some", token |-> tok, message |-> "", pos |-> p, line |-> ln,
     trace |-> [tr EXCEPT !.start = start]]

\* None from a stream that starts over once it has run out
NoneRewinds(p, ln, tr) ==
    [kind |-> "none", token |-> NoToken, message |-> "", pos |-> 0, line |-> ln,
     trace |-> tr]

None(p, ln, tr) ==
    [kind |-> "none", token |-> NoToken, message |-> "", pos |-> p, line |-> ln,
     trace |-> tr]

Panic(msg, p, ln, tr, start) ==
    [kind |-> "panic", token |-> NoToken, message |-> msg, pos |-> p, line |-> ln,
     trace |-> [tr EXCEPT !.start = start]]

\* the single-character arms entered on a peeked character that is never
\* consumed: the stream is left where the call found it
SingleArmPeeks(src, q, ln, tr, ch) ==
    Some(Token(SingleType(ch), NoLiteral, <<ch>>, ln), q - 1, ln, tr, q)

\* the arms '(' ')' '{' '}' ',' '.' '-' '+' ';' '*'
SingleArm(src, q, ln, tr, ch) ==
    Some(Token(SingleType(ch), NoLiteral, <<ch>>, ln), q, ln, tr, q)

OperatorChars == {"!", "=", ">", "<"}
OneType(ch) ==
    CASE ch = "!" -> "Bang" [] ch = "=" -> "Equal"
      [] ch = ">" -> "Greater" [] ch = "<" -> "Less"
TwoType(ch) ==
    CASE ch = "!" -> "BangEqual" [] ch = "=" -> "EqualEqual"
      [] ch = ">" -> "GreaterEqual" [] ch = "<" -> "LessEqual"
\* the lexeme literal each single-character operator arm passes to Token::new
OneLexeme(ch) == IF ch = "!" THEN <<"=">> ELSE <<ch>>

\* the operator arms with the lookahead taken by next() instead of peek(): the
\* character after a single-character operator is consumed too
OperatorArmTakesLookahead(src, q, ln, tr, ch) ==
    IF Peek(src, q) = "="
    THEN Some(Token(TwoType(ch), NoLiteral, <<ch, "=">>, ln), q + 1, ln, tr, q)
    ELSE Some(Token(OneType(ch), NoLiteral, OneLexeme(ch), ln), Advance(src, q), ln, tr, q)

\* the arms '!' '=' '>' '<': q is the position after ch
OperatorArm(src, q, ln, tr, ch) ==
    IF Peek(src, q) = "="
    THEN Some(Token(TwoType(ch), NoLiteral, <<ch, "=">>, ln), q + 1, ln, tr, q)
    ELSE Some(Token(OneType(ch), NoLiteral, OneLexeme(ch), ln), q, ln, tr, q)

\* while self.stream.peek() != Some(&'\n') && self.stream.next().is_some() { self.stream.next(); }
RECURSIVE LineComment(_, _)
LineComment(src, p) ==
    IF Peek(src, p) = NL THEN p
    ELSE IF p >= Len(src) THEN p
    ELSE LineComment(src, Advance(src, p + 1))

\* the loop of the block comment branch; just is just_consumed.  Gives the
\* position and line at loop exit and whether the loop ended at a closer.
RECURSIVE BlockLoop(_, _, _, _)
BlockLoop(src, p, ln, just) ==
    IF just = "*" /\ Peek(src, p) = "/" THEN [pos |-> p, line |-> ln, closed |-> TRUE]
    ELSE IF Peek(src, p) = NoChar THEN [pos |-> p, line |-> ln, closed |-> FALSE]
    ELSE BlockLoop(src, p + 1, IF src[p + 1] = NL THEN ln + 1 ELSE ln, src[p + 1])

\* the block comment branch: the loop, then one self.stream.next()
BlockComment(src, q, ln) ==
    LET b == BlockLoop(src, q, ln, "\\0")
    IN  [pos |-> Advance(src, b.pos), line |-> b.line, closed |-> b.closed]

\* while self.stream.peek() != Some(&'"') { self.stream.next().expect(..) }:
\* the position where the peeked character is the closing quote, or -1 when
\* the stream ends first and expect panics
RECURSIVE StringLoop(_, _)
StringLoop(src, p) ==
    IF Peek(src, p) = QUOTE THEN p
    ELSE IF p >= Len(src) THEN -1
    ELSE StringLoop(src, p + 1)

\* the string arm without the self.stream.next() that consumes the closing quote
StringArmLeavesQuote(src, q, ln, tr) ==
    LET e == StringLoop(src, q)
        s == SubSeq(src, q + 1, e)
    IN  IF e = -1 THEN Panic("No closing quote found", Len(src), ln, tr, q)
        ELSE Some(Token("String", LoxIdentifier(s), s, ln), e, ln, tr, q)

\* the arm '"': q is the position after the opening quote
StringArm(src, q, ln, tr) ==
    LET e == StringLoop(src, q)
        s == SubSeq(src, q + 1, e)
    IN  IF e = -1 THEN Panic("No closing quote found", Len(src), ln, tr, q)
        ELSE Some(Token("String", LoxIdentifier(s), s, ln), e + 1, ln, tr, q)

RECURSIVE IdentLoop(_, _)
IdentLoop(src, p) ==
    IF Peek(src, p) \in IdentContinue THEN IdentLoop(src, p + 1) ELSE p

\* the arm 'a'..='z' | 'A'..='Z'
IdentArm(src, q, ln, tr) ==
    LET e == IdentLoop(src, q)
        ident == SubSeq(src, q, e)
        type == KeywordType(ident)
    IN  Some(Token(type, IF type = "Identifier" THEN LoxIdentifier(ident) ELSE NoLiteral,
                   ident, ln), e, ln, tr, q)

RECURSIVE NumberLoop(_, _)
NumberLoop(src, p) ==
    IF Peek(src, p) \in NumberContinue THEN NumberLoop(src, p + 1) ELSE p

\* tokenize_number(ch)
TokenizeNumber(src, q, ln, tr) ==
    LET e == NumberLoop(src, q)
        ident == SubSeq(src, q, e)
        value == ParseF64(ident)
    IN  IF value = ParseError THEN Panic("Could not parse into float", e, ln, tr, q)
        ELSE Some(Token("Number", LoxNumber(value), ident, ln), e, ln, tr, q)

\* Scanner::next with the catch-all arm yielding a TokenType::Skip token for the
\* character instead of dropping it
RECURSIVE ScanFromYieldsSkip(_, _, _, _)
ScanFromYieldsSkip(src, p, ln, tr) ==
    IF p >= Len(src) THEN None(p, ln, tr)
    ELSE
      LET ch == src[p + 1]
          q == p + 1
      IN  CASE ch \in SingleChars -> SingleArm(src, q, ln, tr, ch)
            [] ch \in OperatorChars -> OperatorArm(src, q, ln, tr, ch)
            [] ch = "/" ->
                 IF Peek(src, q) = "/" THEN ScanFromYieldsSkip(src, LineComment(src, q), ln, tr)
                 ELSE IF Peek(src, q) = "*" THEN
                   LET b == BlockComment(src, q, ln)
                   IN  ScanFromYieldsSkip(src, b.pos, b.line,
                                IF b.closed THEN tr
                                ELSE [tr EXCEPT !.unclosed = Append(@, ln)])
                 ELSE Some(Token("Slash", NoLiteral, <<"/">>, ln), q, ln, tr, q)
            [] ch = QUOTE -> StringArm(src, q, ln, tr)
            [] ch \in IdentStart -> IdentArm(src, q, ln, tr)
            [] ch \in Digits -> TokenizeNumber(src, q, ln, tr)
            [] ch = NL -> ScanFromYieldsSkip(src, q, ln + 1, tr)
            [] OTHER -> Some(Token("Skip", NoLiteral, <<ch>>, ln), q, ln, tr, q)

\* Scanner::next from stream position p: while let Some(ch) = self.stream.next() { match ch .. }
RECURSIVE ScanFrom(_, _, _, _)
ScanFrom(src, p, ln, tr) ==
    IF p >= Len(src) THEN None(p, ln, tr)
    ELSE
      LET ch == src[p + 1]
          q == p + 1
      IN  CASE ch \in SingleChars -> SingleArm(src, q, ln, tr, ch)
            [] ch \in OperatorChars -> OperatorArm(src, q, ln, tr, ch)
            [] ch = "/" ->
                 IF Peek(src, q) = "/" THEN ScanFrom(src, LineComment(src, q), ln, tr)
                 ELSE IF Peek(src, q) = "*" THEN
                   LET b == BlockComment(src, q, ln)
                   IN  ScanFrom(src, b.pos, b.line,
                                IF b.closed THEN tr
                                ELSE [tr EXCEPT !.unclosed = Append(@, ln)])
                 ELSE Some(Token("Slash", NoLiteral, <<"/">>, ln), q, ln, tr, q)
            [] ch = QUOTE -> StringArm(src, q, ln, tr)
            [] ch \in IdentStart -> IdentArm(src, q, ln, tr)
            [] ch \in Digits -> TokenizeNumber(src, q, ln, tr)
            [] ch = NL -> ScanFrom(src, q, ln + 1, tr)
            [] OTHER -> ScanFrom(src, q, ln, [tr EXCEPT !.fell = Append(@, ch)])

----------------------------------------------------------------------------
(* The state machine *)

\* the source strings over an alphabet, up to the bound
Sources(alphabet) == UNION {[1..n -> alphabet] : n \in 0..MaxLen}

\* from_source with the line counter started at 0
FromSourceLineZero(src) ==
    /\ source = src
    /\ pos = 0
    /\ line = 0
    /\ returned = [kind |-> "init"]
    /\ calls = 0
    /\ tokens = <<>>
    /\ spans = <<>>
    /\ trace = NoTrace

\* Scanner::from_source(source)
FromSource(src) ==
    /\ source = src
    /\ pos = 0
    /\ line = 1
    /\ returned = [kind |-> "init"]
    /\ calls = 0
    /\ tokens = <<>>
    /\ spans = <<>>
    /\ trace = NoTrace

\* the longest run of calls considered for one source
MaxCalls == MaxLen + 1 + ExtraCalls

\* one call of Scanner::next; a call that panicked ended the process
ScannerNext ==
    /\ returned.kind # "panic"
    /\ calls < MaxCalls
    /\ LET r == ScanFrom(source, pos, line, NoTrace)
       IN  /\ pos' = r.pos
           /\ line' = r.line
           /\ returned' = [kind |-> r.kind, token |-> r.token, message |-> r.message]
           /\ trace' = r.trace
           /\ tokens' = IF r.kind = "some" THEN Append(tokens, r.token) ELSE tokens
           /\ spans' = IF r.kind = "some"
                       THEN Append(spans, [start |-> r.trace.start, end |-> r.pos])
                       ELSE spans
    /\ calls' = calls + 1
    /\ UNCHANGED source

Next == ScannerNext

\* a mix of every lexical class
Alphabet == {"+", "!", "=", "/", "*", NL, QUOTE, "o", "1", "."}

Init == \E src \in Sources(Alphabet) : FromSource(src)

Spec == Init /\ [][Next]_vars

----------------------------------------------------------------------------
(* Specifications over narrower alphabets, same scanner *)

\* the one-or-two character operators next to a letter, a blank and a fixed token
OperatorAlphabet == {"!", "=", "<", ">", "o", " ", "+"}
InitOperators == \E src \in Sources(OperatorAlphabet) : FromSource(src)
SpecOperators == InitOperators /\ [][Next]_vars

\* identifier characters next to a digit, a blank and a character of no lexical class
WordAlphabet == {"o", "r", "_", "-", "1", " ", "@", "+"}
InitWords == \E src \in Sources(WordAlphabet) : FromSource(src)
SpecWords == InitWords /\ [][Next]_vars

----------------------------------------------------------------------------
(* Vocabulary of the properties *)

Whitespace == {" ", TAB, CR, NL}

\* the characters some lexical rule of the language accepts
LexicalChars ==
    SingleChars \cup OperatorChars \cup {"/", QUOTE, "_"} \cup Lower \cup Upper
      \cup Digits \cup Whitespace

\* the types of the identifier-shaped tokens
WordTypes ==
    {"Identifier", "And", "Class", "Else", "False", "For", "Fun", "If", "Nil", "Or",
     "Print", "Return", "Super", "This", "True", "Var", "While"}
WordChars == Lower \cup Upper \cup Digits \cup {"_"}

\* 1-based line of the i-th character of src: 1 plus the newlines before it
LineAt(src, i) == 1 + Cardinality({j \in 1..(i - 1) : src[j] = NL})

\* the source text a token was scanned from
TextOf(i) == SubSeq(source, spans[i].start, spans[i].end)

\* a lexical error as an outcome of a call
LexError(msg, ln) == [kind |-> "error", message |-> msg, line |-> ln]

\* end of the numeral that starts at index s: the digits, then a dot and more
\* digits only when a digit follows the dot
RECURSIVE DigitRunEnd(_, _)
DigitRunEnd(src, e) ==
    IF e < Len(src) /\ src[e + 1] \in Digits THEN DigitRunEnd(src, e + 1) ELSE e
NumeralEnd(src, s) ==
    LET e == DigitRunEnd(src, s)
    IN  IF e + 1 < Len(src) /\ src[e + 1] = "." /\ src[e + 2] \in Digits
        THEN DigitRunEnd(src, e + 2)
        ELSE e

----------------------------------------------------------------------------
(* The claims *)

\* C1: once pulling has reached exhaustion, the tokens yielded end with exactly
\* one end-of-input token, with empty lexeme and the final line number; for the
\* empty source that token, at line 1, is the whole sequence.
C1_EndsWithOneEndOfInput ==
    returned.kind = "none" =>
        /\ tokens # <<>>
        /\ tokens[Len(tokens)] = Token("EOF", NoLiteral, <<>>, line)
        /\ \A i \in 1..(Len(tokens) - 1) : tokens[i].type # "EOF"
        /\ (source = <<>> => tokens = <<Token("EOF", NoLiteral, <<>>, 1)>>)

\* C2: no call of Scanner::next ends in a panic, whatever the source.
C2_NeverPanics == returned.kind # "panic"

\* C3: when a call consumes an opening quote and the input ends before a closing
\* quote, the call reports the lexical error "unterminated string" with the line
\* on which the string began; it yields no String token and does not abort.
C3_UnterminatedStringReported ==
    ( /\ trace.start > 0
      /\ source[trace.start] = QUOTE
      /\ \A i \in (trace.start + 1)..Len(source) : source[i] # QUOTE )
    => returned = LexError("unterminated string", LineAt(source, trace.start))

\* C4: a consumed character that matches no lexical rule is reported as an
\* "unexpected character" error: the call never silently drops such a character.
C4_UnexpectedCharacterReported ==
    \A i \in 1..Len(trace.fell) : trace.fell[i] \in LexicalChars

\* C5: when a block comment is opened and the input ends before its closer, the
\* call reports the lexical error "unterminated comment" instead of ending the
\* scan as a silent success.
C5_UnterminatedCommentReported ==
    trace.unclosed # <<>> =>
        /\ returned.kind = "error"
        /\ returned.message = "unterminated comment"

\* C6: a Number token's lexeme is a run of digits, followed by a dot and more
\* digits only if a digit follows the dot; a dot with no digit after it is left
\* unconsumed (and so is scanned as a Dot token by the next call).
C6_NumberLeavesTrailingDot ==
    \A i \in 1..Len(tokens) :
        tokens[i].type = "Number" =>
            /\ spans[i].end = NumeralEnd(source, spans[i].start)
            /\ tokens[i].lexeme = SubSeq(source, spans[i].start,
                                         NumeralEnd(source, spans[i].start))

\* C7: a line comment consumes up to, not past, the end of its line and yields
\* no token, whatever the length of its body: the source "//" body "\n" "+"
\* yields the single token Plus, on line 2.
C7_LineCommentKeepsNextLine ==
    ( /\ returned.kind = "none"
      /\ Len(source) >= 4
      /\ source[1] = "/" /\ source[2] = "/"
      /\ \A i \in 3..(Len(source) - 2) : source[i] # NL
      /\ source[Len(source) - 1] = NL
      /\ source[Len(source)] = "+" )
    => tokens = <<Token("Plus", NoLiteral, <<"+">>, 2)>>

\* what C8 expects of each operator character
C8_Single(ch) ==
    CASE ch = "!" -> "Bang" [] ch = "=" -> "Equal" [] ch = "<" -> "Less"
      [] ch = ">" -> "Greater"
C8_Double(ch) ==
    CASE ch = "!" -> "BangEqual" [] ch = "=" -> "EqualEqual" [] ch = "<" -> "LessEqual"
      [] ch = ">" -> "GreaterEqual"

\* C8: for a token that starts at `!`, `=`, `<` or `>`: if the next character is
\* `=` both are consumed and the token is the two-character one; otherwise the
\* token is the single-character one and the next character is left unconsumed.
C8_OperatorLookahead ==
    \A i \in 1..Len(tokens) :
        LET s == spans[i].start
            ch == source[s]
        IN  ch \in {"!", "=", "<", ">"} =>
                IF s < Len(source) /\ source[s + 1] = "="
                THEN tokens[i].type = C8_Double(ch) /\ spans[i].end = s + 1
                ELSE tokens[i].type = C8_Single(ch) /\ spans[i].end = s

\* a two-character operator was yielded, and a single-character one whose
\* lookahead character exists and was left in the stream
C8_Witness ==
    /\ \E i \in 1..Len(tokens) : tokens[i].type = "LessEqual"
    /\ \E j \in 1..Len(tokens) :
           /\ tokens[j].type = "Bang"
           /\ spans[j].end < Len(source)
           /\ pos > spans[j].end

\* C9: every token's lexeme is the exact substring of the source that produced it.
C9_LexemeIsSourceText ==
    \A i \in 1..Len(tokens) : tokens[i].lexeme = TextOf(i)

\* C10: an identifier-or-keyword lexeme starts at a letter or underscore and is
\* the maximal run of letters, digits and underscores; an underscore is never
\* dropped and `-` is never absorbed into the lexeme.
C10_IdentifierShape ==
    /\ \A i \in 1..Len(tokens) :
           tokens[i].type \in WordTypes =>
               /\ \A k \in 1..Len(tokens[i].lexeme) : tokens[i].lexeme[k] \in WordChars
               /\ Peek(source, spans[i].end) \notin WordChars
    /\ \A k \in 1..Len(trace.fell) : trace.fell[k] # "_"

\* C11: every token's line is the 1-based source line of its first character:
\* 1 plus the number of newlines before that character, those inside string
\* literals and comments included.
C11_TokenLineIsSourceLine ==
    \A i \in 1..Len(tokens) : tokens[i].line = LineAt(source, spans[i].start)

----------------------------------------------------------------------------
(* Block comments: longer sources over the comment characters *)

SourcesUpTo(alphabet, n) == UNION {[1..k -> alphabet] : k \in 0..n}

CommentLen == MaxLen + 2
CommentAlphabet == {"/", "*", NL, "+"}
InitComments == \E src \in SourcesUpTo(CommentAlphabet, CommentLen) : FromSource(src)
SpecComments == InitComments /\ [][Next]_vars

\* index of the `*` of the first closer `*/` that lies wholly after the opener
\* `/*` at the start of src; 0 when there is none
FirstCloser(src) ==
    LET closers == {c \in 3..(Len(src) - 1) : src[c] = "*" /\ src[c + 1] = "/"}
    IN  IF closers = {} THEN 0 ELSE CHOOSE c \in closers : \A d \in closers : c <= d

\* C12: a block comment consumes everything up to and including its matching
\* closer and yields no token, and the line counter grows by exactly the newlines
\* inside it: for a source that opens with a closed comment, no token starts
\* inside the comment, and a `+` right after it is the first token, with line
\* 1 plus the newlines of the comment.
C12_BlockCommentConsumed ==
    LET c == FirstCloser(source)
    IN  ( /\ calls >= 1
          /\ Len(source) >= 4
          /\ source[1] = "/" /\ source[2] = "*"
          /\ c > 0 )
        => /\ pos >= c + 1
           /\ \A i \in 1..Len(tokens) : spans[i].start > c + 1
           /\ (c + 2 <= Len(source) /\ source[c + 2] = "+") =>
                  /\ tokens[1] = Token("Plus", NoLiteral, <<"+">>,
                                       1 + Cardinality({j \in 3..(c - 1) : source[j] = NL}))
                  /\ spans[1] = [start |-> c + 2, end |-> c + 2]

----------------------------------------------------------------------------
(* Keywords: sources made of one or two words separated by a blank, the      *)
(* words being the reserved words and their near misses                      *)

\* `Print` for `print`
Capitalised(w) == <<UpperOf(w[1])>> \o Tail(w)
\* `printer` for `print`
Lengthened(w) == w \o <<"e", "r">>
\* `prin` for `print`
Shortened(w) == SubSeq(w, 1, Len(w) - 1)

Words ==
    KeywordTexts \cup {Capitalised(w) : w \in KeywordTexts}
      \cup {Lengthened(w) : w \in KeywordTexts} \cup {Shortened(w) : w \in KeywordTexts}
WordSources == Words \cup {v \o <<" ">> \o w : v \in Words, w \in Words}
InitKeywords == \E src \in WordSources : FromSource(src)
SpecKeywords == InitKeywords /\ [][Next]_vars

\* C13: a lexeme started at a letter that equals a keyword, case-sensitively,
\* yields that keyword's token with no literal payload; any other such lexeme
\* (`printer`, `Print`) yields an Identifier token whose literal is the text.
C13_KeywordLookup ==
    \A i \in 1..Len(tokens) :
        source[spans[i].start] \in Lower \cup Upper =>
            IF TextOf(i) \in KeywordTexts
            THEN /\ <<TextOf(i), tokens[i].type>> \in KeywordTable
                 /\ tokens[i].literal = NoLiteral
            ELSE /\ tokens[i].type = "Identifier"
                 /\ tokens[i].literal.tag # "none"
                 /\ tokens[i].literal.text = TextOf(i)

\* `print` was yielded as Print and `printer` as an Identifier
C13_Witness ==
    /\ \E i \in 1..Len(tokens) :
           /\ tokens[i].type = "Print"
           /\ tokens[i].literal = NoLiteral
    /\ \E j \in 1..Len(tokens) :
           /\ tokens[j].type = "Identifier"
           /\ tokens[j].lexeme = <<"p", "r", "i", "n", "t", "e", "r">>

----------------------------------------------------------------------------
(* Whitespace: numbers and `+` among the four whitespace characters, and the *)
(* source of the scanner's unit test                                         *)

BlankAlphabet == {"1", "+", " ", TAB, CR, NL}
\* "1 + 2 + 3"
TestSource == <<"1", " ", "+", " ", "2", " ", "+", " ", "3">>
InitBlanks == \E src \in Sources(BlankAlphabet) \cup {TestSource} : FromSource(src)
SpecBlanks == InitBlanks /\ [][Next]_vars

\* smallest index from `from` on whose character is not whitespace; Len + 1 when
\* only whitespace is left
FirstNonBlank(src, from) ==
    LET rest == {k \in from..Len(src) : src[k] \notin Whitespace}
    IN  IF rest = {} THEN Len(src) + 1 ELSE CHOOSE k \in rest : \A m \in rest : k <= m

----------------------------------------------------------------------------
(* String literals: quotes among a backslash, a letter, a newline and `+` *)

BACKSLASH == "\\"
StringAlphabet == {QUOTE, BACKSLASH, "o", NL, "+"}
InitStrings == \E src \in Sources(StringAlphabet) : FromSource(src)
SpecStrings == InitStrings /\ [][Next]_vars

\* C15: a String token runs from its opening quote to the first quote after it,
\* which is consumed; its literal is exactly the characters between the two,
\* with no escape processing (a backslash is an ordinary character and does not
\* hide a quote); scanning resumes right after the closing quote.
C15_StringLiteralVerbatim ==
    \A i \in 1..Len(tokens) :
        source[spans[i].start] = QUOTE =>
            /\ tokens[i].type = "String"
            /\ spans[i].end > spans[i].start
            /\ source[spans[i].end] = QUOTE
            /\ \A k \in (spans[i].start + 1)..(spans[i].end - 1) : source[k] # QUOTE
            /\ tokens[i].literal.tag # "none"
            /\ tokens[i].literal.text = SubSeq(source, spans[i].start + 1, spans[i].end - 1)
            /\ (i < Len(tokens) => spans[i + 1].start > spans[i].end)
            /\ (i = Len(tokens) => pos >= spans[i].end)

\* a String token whose literal is one backslash was yielded, and the token
\* after it starts right behind its closing quote
C15_Witness ==
    \E i \in 1..Len(tokens) :
        /\ tokens[i].type = "String"
        /\ tokens[i].literal.text = <<BACKSLASH>>
        /\ i < Len(tokens)
        /\ spans[i + 1].start = spans[i].end + 1

----------------------------------------------------------------------------
(* Termination, exhaustion and the line counter *)

\* C16: every call of next on a stream that is not exhausted consumes at least
\* one character, so a source of length N yields at most N tokens and the call
\* after the N-th, when it is made, finds the stream exhausted and returns None.
C16_EveryCallAdvances ==
    /\ [][pos < Len(source) => pos' > pos]_vars
    /\ [](/\ pos <= Len(source)
          /\ Len(tokens) <= pos
          /\ calls > Len(source) => (returned.kind = "none" /\ pos = Len(source)))

\* the worst case: a source of two or more characters, each a token of its own,
\* exhausted by the call after the last of them
C16_Witness ==
    /\ Len(source) >= 2
    /\ Len(tokens) = Len(source)
    /\ calls = Len(source) + 1
    /\ returned.kind = "none"

\* C17: once next has returned None, every later call returns None too, yields
\* no token and leaves the line counter (and the stream) unchanged.
C17_ExhaustionIsFinal ==
    [][returned.kind = "none" =>
           /\ returned'.kind = "none"
           /\ tokens' = tokens
           /\ line' = line
           /\ pos' = pos]_vars

\* next was called again after it had returned None, on a source that had
\* yielded tokens over more than one line
C17_Witness ==
    /\ returned.kind = "none"
    /\ tokens # <<>>
    /\ line > 1
    /\ calls >= Len(tokens) + 2

\* C18: the `*` of the opener `/*` is never taken for the `*` of a closer: a
\* source that begins with `/*/` and has no `*/` after the opener is one
\* unterminated comment, so the first call consumes it whole, finds the comment
\* unclosed, and no token is ever yielded.
C18_OpenerStarNotReused ==
    ( /\ calls >= 1
      /\ Len(source) >= 3
      /\ source[1] = "/" /\ source[2] = "*" /\ source[3] = "/"
      /\ FirstCloser(source) = 0 )
    => /\ tokens = <<>>
       /\ pos = Len(source)
       /\ (calls = 1 => trace.unclosed # <<>>)

\* C19: the line counter starts at 1 and no call of next decreases it, so the
\* lines of the tokens yielded are at least 1, non-decreasing in order, and
\* never beyond the counter.
C19_LineNeverDecreases ==
    /\ [][line' >= line]_vars
    /\ [](/\ calls = 0 => line = 1
          /\ line >= 1
          /\ \A i \in 1..Len(tokens) :
                 /\ tokens[i].line >= 1
                 /\ tokens[i].line <= line
                 /\ (i < Len(tokens) => tokens[i].line <= tokens[i + 1].line))

\* two tokens in a row were yielded on different lines
C19_Witness ==
    \E i \in 1..(Len(tokens) - 1) : tokens[i].line < tokens[i + 1].line

====
